---- MODULE Spec2Model ----
(***************************************************************************)
(* Step-up authentication, payment state machine and session lifecycle of  *)
(* the payment portal.                                                     *)
(*                                                                         *)
(* Time is the wall clock Date.now() in milliseconds.  The store (Mongo)   *)
(* is taken to be reliable in Spec: a save() persists what was assigned.   *)
(* Handlers run one at a time (one action per request), except in the      *)
(* concurrent specifications, where they step from await to await.         *)
(***************************************************************************)
EXTENDS Integers, Sequences, FiniteSets, TLC

VARIABLES
    now,        \* Date.now(), milliseconds
    employees,  \* Employee collection: _id -> document
    payments,   \* Payment collection: paymentId -> document
    last,       \* the request handled last and the response it got
    streak,     \* history: consecutive credential failures of each employee
    cookie,     \* the browser's cookie jar (session specification)
    sread,      \* result of the last getSession of the jar (session specification)
    born,       \* history: absoluteExpiry fixed when the jar's session was created
    uuid,       \* number of uuidv4() values drawn so far
    sink,       \* audit sink: sequence file, audit log, pendingBuffer
    faults,     \* the kinds of store and file failures that can happen
    flight      \* requests between two awaits (concurrent specification)

vars == <<now, employees, payments, last, streak, cookie, sread, born, uuid, sink,
          faults, flight>>

----------------------------------------------------------------------------
(* Program constants *)

MsPerSec == 1000
REAUTH_WINDOW_SECONDS == 300
THRESHOLD == 10000
MAX_REAUTH_FAILURES == 5
SESSION_DURATION == 30 * 60
ABSOLUTE_TIMEOUT == 30 * 60
IDLE_TIMEOUT == 10 * 60
RENEWAL_THRESHOLD == 2 * 60

\* amounts are kept in cents (the schema rounds to two decimals)
CentsPerUnit == 100
MaxAmountCents == 99999999

\* a Date field that is null
NoDate == -1

\* Math.floor(ms / 1000)
Sec(ms) == ms \div MsPerSec

----------------------------------------------------------------------------
(* Values *)

Undefined == "undefined"

EmployeeIds == {"emp1"}
UserIds == {"user1"}
PaymentIds == {"PAY-1"}

CorrectPassword == "Passw0rd!"
WrongPassword == "Wr0ngpass!"
TotpSecret == "JBSWY3DPEHPK3PXP"
GoodCode == "123456"
BadCode == "000000"
StoredSwift == "ABCDEF12"


\* JavaScript truthiness of a string-or-undefined value
Truthy(x) == x # Undefined /\ x # ""

\* bcrypt: hashPassword / verifyPassword
hashPassword(password) == <<"bcrypt", password>>

verifyPassword(password, hash) == hashPassword(password) = hash

\* fieldEncryption and otplib: the code an authenticator shows for a secret
EncryptedTotpSecret == "enc:JBSWY3DPEHPK3PXP"

decryptField(enc) ==
    IF enc = EncryptedTotpSecret THEN TotpSecret ELSE "garbage"

authenticatorCode(secret) ==
    IF secret = TotpSecret THEN GoodCode ELSE "999999"

\* variant: a request without a code skips the second factor
verifyTOTPLenient(encryptedSecret, code) ==
    \/ ~Truthy(code)
    \/ code = authenticatorCode(decryptField(encryptedSecret))

verifyTOTP(encryptedSecret, code) ==
    IF encryptedSecret = "" \/ ~Truthy(code)
    THEN FALSE
    ELSE code = authenticatorCode(decryptField(encryptedSecret))

----------------------------------------------------------------------------
(* Session token codec (jwt.js) and session reading (session.js) *)

Has(rec, f) == f \in DOMAIN rec

\* jwt.sign(securePayload, SECRET, {expiresIn: SESSION_DURATION}): iat is the
\* signing time; no caller puts iat or exp into the payload
signToken(payload, t) ==
    [claims |-> payload,
     iat |-> Sec(t),
     exp |-> Sec(t) + SESSION_DURATION,
     sig |-> "server"]

\* jwt.verify, then the fields verifyToken copies into `user`
verifyToken(token, t) ==
    IF token.sig # "server"
    THEN [isValid |-> FALSE, error |-> "Invalid token"]
    ELSE IF Sec(t) >= token.exp
    THEN [isValid |-> FALSE, error |-> "Token expired"]
    ELSE [isValid |-> TRUE,
          user |-> [userId |-> token.claims.userId,
                    role |-> token.claims.role,
                    sessionId |-> token.claims.sessionId,
                    issuedAt |-> token.iat],
          exp |-> token.exp]

\* a cookie jar: at most one session token, and the csrf-token cookie ("" = none)
NoJar == [token |-> <<>>, csrf |-> ""]

\* `x && now > x` for a field that may be absent from the session object
ExpiredBy(session, f, nowS) ==
    Has(session, f) /\ session[f] # 0 /\ nowS > session[f]

\* (session.idleExpiry - now) < RENEWAL_THRESHOLD; NaN < n is false
NeedsRenewal(session, nowS) ==
    Has(session, "idleExpiry") /\ (session.idleExpiry - nowS) < RENEWAL_THRESHOLD

getSession(jar, t) ==
    IF jar.token = <<>>
    THEN [kind |-> "null", isValid |-> FALSE]
    ELSE LET verify == verifyToken(jar.token[1], t)
             nowS == Sec(t)
         IN  IF ~verify.isValid
             THEN [kind |-> "null", isValid |-> FALSE]
             ELSE IF ExpiredBy(verify.user, "absoluteExpiry", nowS)
             THEN [kind |-> "invalid", isValid |-> FALSE, reason |-> "absolute_timeout"]
             ELSE IF ExpiredBy(verify.user, "idleExpiry", nowS)
             THEN [kind |-> "invalid", isValid |-> FALSE, reason |-> "idle_timeout"]
             ELSE [kind |-> "valid",
                   isValid |-> TRUE,
                   user |-> verify.user,
                   exp |-> verify.exp,
                   csrfToken |-> jar.csrf,
                   needsRenewal |-> NeedsRenewal(verify.user, nowS)]

validateCsrfToken(jar, header, t) ==
    LET session == getSession(jar, t)
    IN  /\ session.isValid
        /\ session.csrfToken # ""
        /\ header # ""
        /\ session.csrfToken = header

\* the payload createSessionCookie / employee-login / rotateSession sign
sessionPayload(userId, role, sessionId, t) ==
    [userId |-> userId,
     role |-> role,
     sessionId |-> sessionId,
     issuedAt |-> Sec(t),
     lastActivity |-> Sec(t),
     absoluteExpiry |-> Sec(t) + ABSOLUTE_TIMEOUT,
     idleExpiry |-> Sec(t) + IDLE_TIMEOUT]

UuidStrings == <<"uuid-1", "uuid-2", "uuid-3", "uuid-4", "uuid-5", "uuid-6",
                 "uuid-7", "uuid-8">>

\* the n-th value uuidv4() returns
uuidv4(n) == UuidStrings[n]

\* variant: a rotation that re-signs the session under the id it had
rotateSessionKeepsId(user, n, t) ==
    [token |-> <<signToken(sessionPayload(user.userId, user.role, user.sessionId, t),
                           t)>>,
     csrf |-> uuidv4(n + 2)]

\* rotateSession(user): user is a session's user object
rotateSession(user, n, t) ==
    [token |-> <<signToken(sessionPayload(user.userId, user.role, uuidv4(n + 1), t),
                           t)>>,
     csrf |-> uuidv4(n + 2)]

----------------------------------------------------------------------------
(* Step-up guard (reauth.js) *)

NullRef == "null"

\* Employee.findById: zero or one document
findById(emps, id) == IF id \in DOMAIN emps THEN <<emps[id]>> ELSE <<>>

\* variant: the window compared with the elapsed milliseconds
withinReauthWindowMs(emp, t) ==
    /\ emp.lastReauthAt # NoDate
    /\ t - emp.lastReauthAt <= REAUTH_WINDOW_SECONDS

\* variant: a window that has closed at its last second
withinReauthWindowExclusive(emp, t) ==
    /\ emp.lastReauthAt # NoDate
    /\ Sec(t) - Sec(emp.lastReauthAt) < REAUTH_WINDOW_SECONDS

\* the recent-window test of lines 37-43
withinReauthWindow(emp, t) ==
    /\ emp.lastReauthAt # NoDate
    /\ Sec(t) - Sec(emp.lastReauthAt) <= REAUTH_WINDOW_SECONDS

\* variant: the lockout one failure late
lockedOutLate(emp) == emp.reauthFailures > MAX_REAUTH_FAILURES

\* variant: a guard without the lockout test
lockedOutNever(emp) == FALSE

\* (employee.reauthFailures || 0) >= MAX_REAUTH_FAILURES
lockedOut(emp) == emp.reauthFailures >= MAX_REAUTH_FAILURES

\* variant: a failure counted twice
recordFailureTwice(emp) == [emp EXCEPT !.reauthFailures = emp.reauthFailures + 2]

\* employee.reauthFailures = (employee.reauthFailures || 0) + 1
recordFailure(emp) == [emp EXCEPT !.reauthFailures = emp.reauthFailures + 1]

\* variant: a success that stamps the watermark and keeps the counter
recordSuccessKeepsCounter(emp, t) == [emp EXCEPT !.lastReauthAt = t]

recordSuccess(emp, t) == [emp EXCEPT !.reauthFailures = 0, !.lastReauthAt = t]

GuardResult(ok, kind, status, message, pwChecked, totpChecked, emps) ==
    [called |-> TRUE, ok |-> ok, kind |-> kind, status |-> status,
     message |-> message, pwChecked |-> pwChecked, totpChecked |-> totpChecked,
     emps |-> emps]

\* requireReauthIfNeeded({sessionUser, amount, reauthPassword, totpCode}); the
\* result carries the Employee collection as the call leaves it
requireReauthIfNeeded(userId, amount, reauthPassword, totpCode, t, emps) ==
    LET found == findById(emps, userId)
    IN  IF found # <<>> /\ withinReauthWindow(found[1], t)
        THEN GuardResult(TRUE, "window", 200, "", FALSE, FALSE, emps)
        ELSE IF found = <<>>
        THEN GuardResult(FALSE, "notfound", 401, "Employee not found",
                         FALSE, FALSE, emps)
        ELSE LET employee == found[1]
             IN  IF lockedOut(employee)
                 THEN GuardResult(FALSE, "locked", 429,
                                  "Too many re-authentication failures",
                                  FALSE, FALSE, emps)
                 ELSE IF ~Truthy(reauthPassword)
                 THEN GuardResult(FALSE, "required", 401,
                                  "Re-authentication required",
                                  FALSE, FALSE, emps)
                 ELSE IF ~verifyPassword(reauthPassword, employee.password)
                 THEN GuardResult(FALSE, "badpw", 401, "Re-authentication failed",
                                  TRUE, FALSE,
                                  [emps EXCEPT ![userId] = recordFailure(employee)])
                 ELSE IF employee.totpEnrolled
                         /\ ~verifyTOTP(employee.totpSecretEncrypted, totpCode)
                 THEN GuardResult(FALSE, "badtotp", 401, "TOTP validation failed",
                                  TRUE, TRUE,
                                  [emps EXCEPT ![userId] = recordFailure(employee)])
                 ELSE GuardResult(TRUE, "full", 200, "",
                                  TRUE, employee.totpEnrolled,
                                  [emps EXCEPT ![userId] = recordSuccess(employee, t)])

\* whether an employee.save() of the guard succeeds in the store
SaveOutcomes(f) == IF "save" \in f THEN BOOLEAN ELSE {TRUE}

\* await employee.save().catch(() => {}): the collection after the guard's
\* write; a failed save leaves it as it was, and the guard goes on
save(before, after, saved) == IF saved THEN after ELSE before

NoGuard ==
    [called |-> FALSE, ok |-> FALSE, kind |-> "none", status |-> 0,
     message |-> "", pwChecked |-> FALSE, totpChecked |-> FALSE]

\* the guard's outcome as the response records it (without the collection)
GuardView(g) ==
    [called |-> g.called, ok |-> g.ok, kind |-> g.kind, status |-> g.status,
     message |-> g.message, pwChecked |-> g.pwChecked,
     totpChecked |-> g.totpChecked]

\* History, per employee: the credential failures in a row since the last
\* full success (run), and those of them since the last logout (sinceLogout);
\* both saturate at the lockout count
NoStreak == [run |-> 0, sinceLogout |-> 0]

Saturating(n) == IF n < MAX_REAUTH_FAILURES THEN n + 1 ELSE n

StreakAfter(st, userId, g) ==
    IF userId \notin DOMAIN st
    THEN st
    ELSE IF g.kind \in {"badpw", "badtotp"}
    THEN [st EXCEPT ![userId] = [run |-> Saturating(@.run),
                                 sinceLogout |-> Saturating(@.sinceLogout)]]
    ELSE IF g.kind = "full"
    THEN [st EXCEPT ![userId] = NoStreak]
    ELSE st

StreakAfterLogout(st, userId) ==
    IF userId \in DOMAIN st
    THEN [st EXCEPT ![userId].sinceLogout = 0]
    ELSE st

----------------------------------------------------------------------------
(* Audit store (audit.js): the schema's enum rejects other action tags *)

AuditActionEnum == {"login", "verify", "send"}

\* Audit.create inside try/catch: a rejected document is logged and dropped
AuditCreate(audits, action) ==
    IF action \in AuditActionEnum THEN Append(audits, action) ELSE audits

----------------------------------------------------------------------------
(* Audit sink (auditSink: sinkAudit, readAndIncrementSeq, pendingBuffer) *)

\* Date.now() at the model's time 0: a timestamp is far above any sequence
\* counter (scaled down to fit the checker's integers)
ClockOrigin == 1000000

DateNow(t) == ClockOrigin + t

\* the outcomes of the file operations of one sinkAudit call: reading and
\* writing the sequence file, appending the buffered lines, appending the line
AllOk == [read |-> TRUE, write |-> TRUE, flush |-> TRUE, append |-> TRUE]

IoOutcomes(f) ==
    IF "file" \in f
    THEN [read : BOOLEAN, write : BOOLEAN, flush : BOOLEAN, append : BOOLEAN]
    ELSE {AllOk}

\* seqFile = 0: the sequence file does not exist; handed and io are history:
\* the number of documents handed to sinkAudit, the outcomes of the last call
NoSink == [seqFile |-> 0, log |-> <<>>, buffer |-> <<>>, handed |-> 0, io |-> AllOk]

\* readAndIncrementSeq: the sequence number and the sequence file afterwards
readAndIncrementSeq(seqFile, t, io) ==
    IF seqFile # 0 /\ ~io.read
    THEN [seq |-> DateNow(t), seqFile |-> seqFile]
    ELSE LET seq == IF seqFile # 0 THEN seqFile ELSE 1
         IN  IF io.write
             THEN [seq |-> seq, seqFile |-> seq + 1]
             ELSE [seq |-> DateNow(t), seqFile |-> seqFile]

\* sinkAudit(auditDoc): pendingBuffer.splice(0) empties the buffer before the
\* buffered lines are appended; the catch block buffers the document under a
\* timestamp
sinkAudit(s, auditDoc, t, io) ==
    LET r == readAndIncrementSeq(s.seqFile, t, io)
        line == [seq |-> r.seq, audit |-> auditDoc]
        buffered == [seq |-> DateNow(t), audit |-> auditDoc]
    IN  IF s.buffer # <<>> /\ ~io.flush
        THEN [s EXCEPT !.seqFile = r.seqFile, !.buffer = <<buffered>>]
        ELSE IF ~io.append
        THEN [s EXCEPT !.seqFile = r.seqFile, !.log = s.log \o s.buffer,
                       !.buffer = <<buffered>>]
        ELSE [s EXCEPT !.seqFile = r.seqFile,
                       !.log = Append(s.log \o s.buffer, line), !.buffer = <<>>]

\* a handler hands the document Audit.create returned to sinkAudit
SinkAfter(s, action, paymentId, t, io) ==
    [sinkAudit(s, [id |-> s.handed + 1, action |-> action, paymentId |-> paymentId],
               t, io)
        EXCEPT !.handed = s.handed + 1, !.io = io]

\* whether an Audit.create succeeds in the store
StoreOutcomes(f) == IF "audit" \in f THEN BOOLEAN ELSE {TRUE}

\* the audit records a request has stored so far, and the sink
NoTrail(s) == [stored |-> <<>>, sink |-> s]

\* try { created = await Audit.create({action, ...}); sinkAudit(created) }
\* catch { log }: schema validation comes before the write to the store
RecordAudit(trail, action, paymentId, t, created, io) ==
    IF action \in AuditActionEnum /\ created
    THEN [stored |-> AuditCreate(trail.stored, action),
          sink |-> SinkAfter(trail.sink, action, paymentId, t, io)]
    ELSE trail

\* variant: an audit error leaves its try block
auditErrorEscapes(created) == ~created

\* catch (auditErr) { console.error(...) }: no audit error reaches the handler
auditErrorThrown(created) == FALSE

----------------------------------------------------------------------------
(* Requests *)

Response(op, actor, pid, reached, status, error, guard, audits, rotated, pw, code) ==
    [op |-> op, actor |-> actor, pid |-> pid, reached |-> reached,
     status |-> status, error |-> error, guard |-> guard, audits |-> audits,
     rotated |-> rotated, pw |-> pw, code |-> code, confirm |-> Undefined]

Idle ==
    Response("none", "", "", FALSE, 0, "", NoGuard, <<>>, <<>>, Undefined, Undefined)

\* a response sent before the handler looks at the payment or calls the guard;
\* nothing is written, and of the request only the response is kept
Refuse(op, status, error) ==
    /\ last' = Response("refused", "", "", FALSE, status, error, NoGuard, <<>>,
                        <<>>, Undefined, Undefined)
    /\ UNCHANGED <<employees, payments, streak, uuid, sink>>

\* a response sent after the payment lookup, before the guard; nothing is written
Reject(op, userId, paymentId, status, error) ==
    /\ last' = Response(op, userId, paymentId, TRUE, status, error, NoGuard, <<>>,
                        <<>>, Undefined, Undefined)
    /\ UNCHANGED <<employees, payments, streak, uuid, sink>>

Principals ==
    {[id |-> e, role |-> "employee"] : e \in EmployeeIds}
        \cup {[id |-> u, role |-> "user"] : u \in UserIds}

IssuedCsrf == "csrf-1"

\* the session a principal got when logging in at time t0
jarOf(p, t0) ==
    [token |-> <<signToken(sessionPayload(p.id, p.role, "sid", t0), t0)>>,
     csrf |-> IssuedCsrf]

\* the cookies a request can carry: none, a token this server did not sign, or
\* the session a principal got at login (time 0)
RequestJars ==
    {NoJar,
     [jarOf([id |-> "emp1", role |-> "employee"], 0) EXCEPT
         !.token = <<[@[1] EXCEPT !.sig = "forged"]>>]}
        \cup {jarOf(p, 0) : p \in Principals}

CsrfHeaders == {IssuedCsrf, "csrf-forged"}

\* {reauthPassword, totpCode} of a request body: nothing, a code alone, a wrong
\* password, the right password with no code, a wrong code, the right code
Secrets ==
    {<<Undefined, Undefined>>, <<Undefined, GoodCode>>, <<WrongPassword, GoodCode>>,
     <<CorrectPassword, Undefined>>, <<CorrectPassword, BadCode>>,
     <<CorrectPassword, GoodCode>>}

\* String.prototype.trim and toUpperCase on the strings requests carry
Trim(str) == IF str = " abcdef12 " THEN "abcdef12" ELSE str

ToUpperCase(str) ==
    CASE str = "abcdef12" -> "ABCDEF12"
      [] str = " abcdef12 " -> " ABCDEF12 "
      [] OTHER -> str

\* confirmSwift of a request body: none, the stored code in lower case, the
\* same between blanks, another code
ConfirmInputs == {Undefined, "abcdef12", " abcdef12 ", "ABCDEF13"}

\* typeof confirmSwift === 'string'
IsString(x) == x # Undefined

\* variant: a comparison that tells upper case from lower case
swiftMatchesCaseSensitive(confirmSwift, swiftCode) == Trim(confirmSwift) = swiftCode

\* confirmSwift.trim().toUpperCase() === (payment.swiftCode || '').toUpperCase()
swiftMatches(confirmSwift, swiftCode) ==
    ToUpperCase(Trim(confirmSwift)) = ToUpperCase(swiftCode)

----------------------------------------------------------------------------
(* POST /api/payment/verify *)

\* payment.status !== 'pending'
notPending(payment) == payment.status # "pending"

\* variant: the handler goes on after a failed guard
reauthIgnored(g) == FALSE

\* if (!reauth.ok) return ...: the handler stops on a failed guard
reauthRefused(g) == ~g.ok

\* variant: a verification that does not record who verified
markVerifiedAnonymous(payment, userId, t) ==
    [payment EXCEPT !.status = "verified", !.verifiedAt = t]

\* the write of a verification
markVerified(payment, userId, t) ==
    [payment EXCEPT !.status = "verified", !.verifiedBy = userId, !.verifiedAt = t]

\* variant: the confirmation compared after the verification was saved
savedBeforeConfirmation(payment, userId, t) == markVerified(payment, userId, t)

\* the payment as the 400 of the confirmation leaves it: the return comes
\* before the assignments and payment.save()
returnedBeforeSave(payment, userId, t) == payment

VerifyBody(user) ==
    LET userId == user.userId IN
    \E paymentId \in PaymentIds \cup {""} :
        IF paymentId = ""
        THEN Refuse("verify", 400, "paymentId is required")
        ELSE IF paymentId \notin DOMAIN payments
        THEN Reject("verify", userId, paymentId, 404, "Payment not found")
        ELSE IF notPending(payments[paymentId])
        THEN Reject("verify", userId, paymentId, 409, "Payment is not pending")
        ELSE \E secret \in Secrets, confirmSwift \in ConfirmInputs :
            LET reauthPassword == secret[1]
                totpCode == secret[2]
                g == requireReauthIfNeeded(userId, payments[paymentId].amount,
                                           reauthPassword, totpCode, now, employees)
            IN  /\ \E saved \in SaveOutcomes(faults) :
                      employees' = save(employees, g.emps, saved)
                /\ streak' = StreakAfter(streak, userId, g)
                /\ IF reauthRefused(g)
                   THEN /\ last' = [Response("verify", userId, paymentId, TRUE,
                                            g.status, g.message, GuardView(g),
                                            AuditCreate(<<>>, "reauth_failure"),
                                            <<>>, reauthPassword, totpCode)
                                       EXCEPT !.confirm = confirmSwift]
                        /\ UNCHANGED <<payments, uuid, sink>>
                   ELSE IF IsString(confirmSwift)
                           /\ ~swiftMatches(confirmSwift, payments[paymentId].swiftCode)
                        THEN /\ last' = [Response("verify", userId, paymentId, TRUE,
                                            400, "SWIFT code confirmation does not match",
                                            GuardView(g),
                                            AuditCreate(<<>>, "reauth_success"),
                                            <<>>, reauthPassword, totpCode)
                                           EXCEPT !.confirm = confirmSwift]
                             /\ payments' = [payments EXCEPT ![paymentId] =
                                                returnedBeforeSave(@, userId, now)]
                             /\ UNCHANGED <<uuid, sink>>
                        ELSE \E created \in StoreOutcomes(faults),
                                io \in IoOutcomes(faults) :
                             LET trail == RecordAudit(
                                            RecordAudit(NoTrail(sink), "reauth_success",
                                                        paymentId, now, TRUE, AllOk),
                                            "verify", paymentId, now, created, io)
                             IN  /\ payments' = [payments EXCEPT ![paymentId] =
                                                    markVerified(@, userId, now)]
                                 /\ uuid' = uuid + 2
                                 /\ sink' = trail.sink
                                 /\ last' = [(IF auditErrorThrown(created)
                                            THEN Response("verify", userId, paymentId,
                                                     TRUE, 500, "Internal server error",
                                                     GuardView(g), trail.stored,
                                                     <<rotateSession(user, uuid, now)>>,
                                                     reauthPassword, totpCode)
                                            ELSE Response("verify", userId, paymentId,
                                                     TRUE, 200, "", GuardView(g),
                                                     trail.stored,
                                                     <<rotateSession(user, uuid, now)>>,
                                                     reauthPassword, totpCode))
                                               EXCEPT !.confirm = confirmSwift]


----------------------------------------------------------------------------
(* POST /api/payment/send *)

\* variant: the send gate stops cancelled payments only
notVerifiedLax(payment) == payment.status = "cancelled"

\* payment.status !== 'verified'
notVerified(payment) == payment.status # "verified"

\* variant: no replay check
alreadySentUnchecked(payment) == FALSE

\* payment.sentToSwift
alreadySent(payment) == payment.sentToSwift

\* the write of a submission
markSent(payment, t) == [payment EXCEPT !.sentToSwift = TRUE, !.swiftSentAt = t]

SendBody(user) ==
    LET userId == user.userId IN
    \E paymentId \in PaymentIds \cup {""} :
        IF paymentId = ""
        THEN Refuse("send", 400, "paymentId is required")
        ELSE IF paymentId \notin DOMAIN payments
        THEN Reject("send", userId, paymentId, 404, "Payment not found")
        ELSE IF notVerified(payments[paymentId])
        THEN Reject("send", userId, paymentId, 409,
                    "Only verified payments may be sent to SWIFT")
        ELSE IF alreadySent(payments[paymentId])
        THEN Reject("send", userId, paymentId, 409, "Payment already sent to SWIFT")
        ELSE \E secret \in Secrets :
            LET reauthPassword == secret[1]
                totpCode == secret[2]
                g == requireReauthIfNeeded(userId, payments[paymentId].amount,
                                           reauthPassword, totpCode, now, employees)
            IN  /\ \E saved \in SaveOutcomes(faults) :
                      employees' = save(employees, g.emps, saved)
                /\ streak' = StreakAfter(streak, userId, g)
                /\ IF reauthRefused(g)
                   THEN /\ last' = Response("send", userId, paymentId, TRUE,
                                            g.status, g.message, GuardView(g),
                                            AuditCreate(<<>>, "reauth_failure"),
                                            <<>>, reauthPassword, totpCode)
                        /\ UNCHANGED <<payments, uuid, sink>>
                   ELSE \E created \in StoreOutcomes(faults),
                           io \in IoOutcomes(faults) :
                        LET trail == RecordAudit(
                                       RecordAudit(NoTrail(sink), "reauth_success",
                                                   paymentId, now, TRUE, AllOk),
                                       "send", paymentId, now, created, io)
                        IN  /\ payments' = [payments EXCEPT ![paymentId] =
                                               markSent(@, now)]
                            /\ uuid' = uuid + 2
                            /\ sink' = trail.sink
                            /\ last' = IF auditErrorThrown(created)
                                       THEN Response("send", userId, paymentId, TRUE,
                                                500, "Internal server error",
                                                GuardView(g), trail.stored,
                                                <<rotateSession(user, uuid, now)>>,
                                                reauthPassword, totpCode)
                                       ELSE Response("send", userId, paymentId, TRUE,
                                                200, "", GuardView(g), trail.stored,
                                                <<rotateSession(user, uuid, now)>>,
                                                reauthPassword, totpCode)


----------------------------------------------------------------------------
(* POST /api/auth/reauth: the guard alone; paymentId is optional, no role check *)

ReauthBody(user) ==
    LET userId == user.userId IN
    \E paymentId \in PaymentIds \cup {""} :
        IF paymentId # "" /\ paymentId \notin DOMAIN payments
        THEN Reject("reauth", userId, paymentId, 404, "Payment not found")
        ELSE \E secret \in Secrets :
            LET reauthPassword == secret[1]
                totpCode == secret[2]
                amount == IF paymentId = "" THEN 0 ELSE payments[paymentId].amount
                g == requireReauthIfNeeded(userId, amount, reauthPassword, totpCode,
                                           now, employees)
            IN  /\ \E saved \in SaveOutcomes(faults) :
                      employees' = save(employees, g.emps, saved)
                /\ streak' = StreakAfter(streak, userId, g)
                /\ last' = Response("reauth", userId, paymentId, TRUE, g.status,
                                    g.message, GuardView(g),
                                    AuditCreate(<<>>, IF g.ok THEN "reauth_success"
                                                              ELSE "reauth_failure"),
                                    <<>>, reauthPassword, totpCode)
                /\ UNCHANGED <<payments, uuid, sink>>


----------------------------------------------------------------------------
(* POST /api/auth/logout: clears the cookies and the employee's re-auth state *)

\* variant: a logout that resets the counter and keeps the watermark
clearReauthCounterOnly(emps, userId) ==
    IF userId \in DOMAIN emps
    THEN [emps EXCEPT ![userId] = [@ EXCEPT !.reauthFailures = 0]]
    ELSE emps

\* Employee.findByIdAndUpdate(userId, {$set: {lastReauthAt: null, reauthFailures: 0}})
clearReauthState(emps, userId) ==
    IF userId \in DOMAIN emps
    THEN [emps EXCEPT ![userId] =
             [@ EXCEPT !.lastReauthAt = NoDate, !.reauthFailures = 0]]
    ELSE emps

Logout ==
    /\ \E jar \in RequestJars :
          LET session == getSession(jar, now)
          IN  IF ~session.isValid
              THEN Refuse("logout", 401, "Not authenticated")
              ELSE \E header \in CsrfHeaders \cup {""} :
                      IF header = "" \/ session.csrfToken # header
                      THEN Refuse("logout", 403, "Invalid CSRF token")
                      ELSE /\ employees' =
                                  clearReauthState(employees, session.user.userId)
                           /\ last' = Response("logout", session.user.userId, "",
                                               FALSE, 200, "", NoGuard, <<>>, <<>>,
                                               Undefined, Undefined)
                           /\ streak' = StreakAfterLogout(streak, session.user.userId)
                           /\ UNCHANGED payments
    /\ UNCHANGED <<now, cookie, sread, born, uuid, sink, faults, flight>>

----------------------------------------------------------------------------
(* POST /api/payment/create and /api/payment/acknowledge (customer) *)

\* nothing, one cent below the step-up threshold, the threshold, too much
AmountInputs == {0, THRESHOLD * CentsPerUnit - 1, THRESHOLD * CentsPerUnit,
                 MaxAmountCents + 1}

\* validateAmount
validAmount(cents) == cents > 0 /\ cents <= MaxAmountCents

newPayment(userId, cents) ==
    [userId |-> userId, amount |-> cents, swiftCode |-> StoredSwift,
     status |-> "pending", verifiedBy |-> NullRef, verifiedAt |-> NoDate,
     acknowledged |-> FALSE, sentToSwift |-> FALSE, swiftSentAt |-> NoDate]

CreateBody(user) ==
    LET userId == user.userId IN
    \E cents \in AmountInputs :
        IF cents = 0
        THEN Refuse("create", 400, "All required fields must be provided.")
        ELSE IF ~validAmount(cents)
        THEN Refuse("create", 400, "Amount must be between 0.01 and 999,999.99")
        ELSE \E paymentId \in PaymentIds :
            IF paymentId \in DOMAIN payments
            THEN Refuse("create", 409, "Payment reference conflict. Please try again.")
            ELSE /\ payments' = payments @@ (paymentId :> newPayment(userId, cents))
                 /\ last' = Response("create", userId, paymentId, TRUE, 201, "",
                                     NoGuard, <<>>, <<>>, Undefined, Undefined)
                 /\ UNCHANGED <<employees, streak, uuid, sink>>


AcknowledgeBody(user) ==
    LET userId == user.userId IN
    \E paymentId \in PaymentIds \cup {""} :
        IF paymentId = ""
        THEN Refuse("acknowledge", 400, "paymentId is required")
        ELSE IF paymentId \notin DOMAIN payments
        THEN Reject("acknowledge", userId, paymentId, 404, "Payment not found")
        ELSE IF payments[paymentId].userId # userId
        THEN Reject("acknowledge", userId, paymentId, 403, "Permission denied")
        ELSE IF payments[paymentId].status # "verified"
        THEN Reject("acknowledge", userId, paymentId, 409,
                    "Only verified payments can be acknowledged")
        ELSE /\ payments' = [payments EXCEPT ![paymentId].acknowledged = TRUE]
             /\ last' = Response("acknowledge", userId, paymentId, TRUE, 200, "",
                                 NoGuard, <<>>, <<>>, Undefined, Undefined)
             /\ UNCHANGED <<employees, streak, uuid, sink>>


----------------------------------------------------------------------------
(* The handlers: opening checks, then the body *)

Body(op, user) ==
    CASE op = "verify" -> VerifyBody(user)
      [] op = "send" -> SendBody(user)
      [] op = "reauth" -> ReauthBody(user)
      [] op = "create" -> CreateBody(user)
      [] OTHER -> AcknowledgeBody(user)

\* the error text of a handler's opening checks; create has its own wording
BoundaryError(op, check) ==
    IF op = "create"
    THEN CASE check = "session" -> "Authentication required. Please log in"
           [] check = "role" -> "Only users can create payments."
           [] OTHER -> "Invalid CSRF token. Please refresh the page and try again."
    ELSE CASE check = "session" -> "Authentication required"
           [] check = "role" -> "Insufficient permissions"
           [] OTHER -> "Invalid CSRF token"

\* The checks that open a handler, in the handlers' order: rate limit (limited),
\* session, role (role "" = none checked), anti-forgery token; then the
\* handler's body runs for the session's user
Handle(op, limited, role) ==
    \E rlOk \in (IF limited THEN BOOLEAN ELSE {TRUE}) :
        IF ~rlOk
        THEN Refuse(op, 429, "Rate limit exceeded")
        ELSE \E jar \in RequestJars :
                LET session == getSession(jar, now)
                IN  IF ~session.isValid
                    THEN Refuse(op, 401, BoundaryError(op, "session"))
                    ELSE IF role # "" /\ session.user.role # role
                    THEN Refuse(op, 403, BoundaryError(op, "role"))
                    ELSE \E header \in CsrfHeaders :
                            IF ~validateCsrfToken(jar, header, now)
                            THEN Refuse(op, 403, BoundaryError(op, "csrf"))
                            ELSE Body(op, session.user)

VerifyPayment ==
    /\ Handle("verify", TRUE, "employee")
    /\ UNCHANGED <<now, cookie, sread, born, faults, flight>>

SendPayment ==
    /\ Handle("send", TRUE, "employee")
    /\ UNCHANGED <<now, cookie, sread, born, faults, flight>>

Reauth ==
    /\ Handle("reauth", TRUE, "")
    /\ UNCHANGED <<now, cookie, sread, born, faults, flight>>

CreatePayment ==
    /\ Handle("create", FALSE, "user")
    /\ UNCHANGED <<now, cookie, sread, born, faults, flight>>

AcknowledgePayment ==
    /\ Handle("acknowledge", FALSE, "user")
    /\ UNCHANGED <<now, cookie, sread, born, faults, flight>>

----------------------------------------------------------------------------
(* Requests in flight: a handler is suspended at each await, and the handlers
   of other requests run in between *)

\* the requests that are served at the same time
Slots == {"a", "b"}

\* a request: where its handler is suspended, the Payment document and the
\* Employee document it holds (each as loaded, or empty), the Employee
\* document as the guard has assigned to it, and the guard's outcome
NoCall ==
    [pc |-> "idle", op |-> "none", actor |-> "", pid |-> "", payment |-> <<>>,
     employee |-> <<>>, assigned |-> <<>>, status |-> 0, message |-> ""]

\* history: the 200s of verify and of send, and the wrong secrets the guard
\* has verified since the stored counter was last set to 0
NoFlight ==
    [calls |-> [s \in Slots |-> NoCall], verified |-> 0, sent |-> 0, tried |-> 0]

----------------------------------------------------------------------------
(* The clock and the specifications *)

\* the instants at which requests arrive in Spec: inside and outside the re-auth
\* window of a step-up made at 0
PaymentInstants == {0, (REAUTH_WINDOW_SECONDS + 1) * MsPerSec + 500}

\* the instants at which requests arrive in GuardSpec: a step-up at 0 or 500 ms,
\* and the seconds around the end of its re-auth window
ReauthInstants ==
    {0, 500,
     (REAUTH_WINDOW_SECONDS - 1) * MsPerSec, (REAUTH_WINDOW_SECONDS - 1) * MsPerSec + 500,
     REAUTH_WINDOW_SECONDS * MsPerSec, REAUTH_WINDOW_SECONDS * MsPerSec + 999,
     (REAUTH_WINDOW_SECONDS + 1) * MsPerSec, (REAUTH_WINDOW_SECONDS + 1) * MsPerSec + 500}

Advance(instants) ==
    /\ \E t \in instants : t > now /\ now' = t
    /\ last' = Idle
    /\ UNCHANGED <<employees, payments, streak, cookie, sread, born, uuid, sink, faults, flight>>

Tick == Advance(PaymentInstants)

GuardTick == Advance(ReauthInstants)

newEmployee(enrolled) ==
    [password |-> hashPassword(CorrectPassword),
     role |-> "employee",
     totpEnrolled |-> enrolled,
     totpSecretEncrypted |-> IF enrolled THEN EncryptedTotpSecret ELSE "",
     lastReauthAt |-> NoDate,
     reauthFailures |-> 0]

NoRead == [at |-> 0, result |-> [kind |-> "none", isValid |-> FALSE]]

\* the state after start-up, where the failures of the kinds in f can happen
InitWith(f) ==
    /\ now = 0
    /\ \E enrolled \in BOOLEAN :
          employees = [e \in EmployeeIds |-> newEmployee(enrolled)]
    /\ payments = <<>>
    /\ last = Idle
    /\ streak = [e \in EmployeeIds |-> NoStreak]
    /\ cookie = NoJar
    /\ sread = NoRead
    /\ born = 0
    /\ uuid = 0
    /\ sink = NoSink
    /\ faults = f
    /\ flight = NoFlight

\* the store and the file system never fail
Init == InitWith({})

Next ==
    \/ Tick
    \/ CreatePayment
    \/ VerifyPayment
    \/ SendPayment
    \/ AcknowledgePayment
    \/ Reauth
    \/ Logout

\* every handler, requests arriving inside or outside one re-auth window
Spec == Init /\ [][Next]_vars

GuardNext ==
    \/ GuardTick
    \/ Reauth
    \/ Logout

\* the step-up guard alone (re-auth endpoint and logout) on the fine clock
GuardSpec == Init /\ [][GuardNext]_vars

AuditFaultNext ==
    \/ Tick
    \/ CreatePayment
    \/ VerifyPayment
    \/ SendPayment

\* the payment handlers while the audit store and the sink's files may fail
AuditFaultSpec == InitWith({"audit", "file"}) /\ [][AuditFaultNext]_vars

\* the guard while the saves of the employee record may fail
GuardFaultSpec == InitWith({"save"}) /\ [][GuardNext]_vars

----------------------------------------------------------------------------
(* Concurrent requests: verify, send and re-auth of employees, each handler
   taking its steps between those of the other; the requests are those that
   passed the opening checks, and verify carries no confirmation string *)

\* the paths of a document that were assigned a value other than the loaded one
modifiedPaths(loaded, doc) == {f \in DOMAIN doc : doc[f] # loaded[f]}

\* document.save(): the modified paths are $set on the stored document
saveDocument(stored, loaded, doc) ==
    [f \in DOMAIN stored |->
        IF f \in modifiedPaths(loaded, doc) THEN doc[f] ELSE stored[f]]

\* variant: a save that adds to the stored counter what the guard added to
\* the counter it read
saveEmployeeAtomically(stored, loaded, assigned) ==
    [stored EXCEPT
        !.reauthFailures = IF assigned.reauthFailures = 0 THEN 0
                           ELSE @ + (assigned.reauthFailures - loaded.reauthFailures),
        !.lastReauthAt = assigned.lastReauthAt]

\* await employee.save(): the guard's document, assigned from the values it
\* read, is saved whatever the store holds by now
saveEmployee(stored, loaded, assigned) == saveDocument(stored, loaded, assigned)

\* the guard from its second findById on (reauth.js:46-95), on the document
\* read: the outcome and the document as assigned, not yet saved
checkSecrets(employee, reauthPassword, totpCode, t) ==
    IF lockedOut(employee)
    THEN [kind |-> "locked", status |-> 429,
          message |-> "Too many re-authentication failures", assigned |-> employee]
    ELSE IF ~Truthy(reauthPassword)
    THEN [kind |-> "required", status |-> 401,
          message |-> "Re-authentication required", assigned |-> employee]
    ELSE IF ~verifyPassword(reauthPassword, employee.password)
    THEN [kind |-> "badpw", status |-> 401,
          message |-> "Re-authentication failed",
          assigned |-> recordFailure(employee)]
    ELSE IF employee.totpEnrolled
            /\ ~verifyTOTP(employee.totpSecretEncrypted, totpCode)
    THEN [kind |-> "badtotp", status |-> 401,
          message |-> "TOTP validation failed",
          assigned |-> recordFailure(employee)]
    ELSE [kind |-> "full", status |-> 200, message |-> "",
          assigned |-> recordSuccess(employee, t)]

\* the response of a request of the concurrent specification
Answer(c, status, error) ==
    Response(c.op, c.actor, c.pid, TRUE, status, error, NoGuard, <<>>, <<>>,
             Undefined, Undefined)

Park(s, c) == [flight EXCEPT !.calls[s] = c]

\* session, role and anti-forgery checks passed; Payment.findOne and the state
\* gates of verify and send
RaceStart(s, ops) ==
    /\ flight.calls[s].pc = "idle"
    /\ \E op \in ops, e \in EmployeeIds :
       \E pid \in (IF op = "reauth" THEN {""} ELSE DOMAIN payments) :
          LET payment == payments[pid]
              c == [NoCall EXCEPT !.op = op, !.actor = e,
                                  !.pid = pid]
          IN  IF op = "verify" /\ notPending(payment)
              THEN /\ last' = Answer(c, 409, "Payment is not pending")
                   /\ UNCHANGED flight
              ELSE IF op = "send" /\ notVerified(payment)
              THEN /\ last' = Answer(c, 409,
                                     "Only verified payments may be sent to SWIFT")
                   /\ UNCHANGED flight
              ELSE IF op = "send" /\ alreadySent(payment)
              THEN /\ last' = Answer(c, 409, "Payment already sent to SWIFT")
                   /\ UNCHANGED flight
              ELSE /\ flight' = Park(s, [c EXCEPT !.pc = "guard",
                                           !.payment = IF op = "reauth" THEN <<>>
                                                       ELSE <<payment>>])
                   /\ last' = Idle
    /\ UNCHANGED <<now, employees, payments, streak, cookie, sread, born, uuid,
                   sink, faults>>

\* the guard's first findById and the recent-window test (reauth.js:36-43)
RaceGuardRecent(s) ==
    LET c == flight.calls[s]
        empRecent == findById(employees, c.actor)
    IN  /\ c.pc = "guard"
        /\ flight' = Park(s, [c EXCEPT !.pc =
                                 IF empRecent # <<>>
                                    /\ withinReauthWindow(empRecent[1], now)
                                 THEN "passed" ELSE "check"])
        /\ last' = Idle
        /\ UNCHANGED <<now, employees, payments, streak, cookie, sread, born, uuid,
                       sink, faults>>

CountTried(n) == IF n <= MAX_REAUTH_FAILURES THEN n + 1 ELSE n

\* the guard's second findById, the lockout test and the secret checks, up to
\* the await of employee.save()
RaceGuardCheck(s) ==
    LET c == flight.calls[s]
        found == findById(employees, c.actor)
    IN  /\ c.pc = "check"
        /\ IF found = <<>>
           THEN /\ last' = Answer(c, 401, "Employee not found")
                /\ flight' = Park(s, NoCall)
           ELSE \E secret \in Secrets :
                   LET r == checkSecrets(found[1], secret[1], secret[2], now)
                   IN  IF r.kind \in {"locked", "required"}
                       THEN /\ last' = Answer(c, r.status, r.message)
                            /\ flight' = Park(s, NoCall)
                       ELSE /\ last' = Idle
                            /\ flight' =
                                  [Park(s, [c EXCEPT !.pc = "save",
                                              !.employee = found,
                                              !.assigned = <<r.assigned>>,
                                              !.status = r.status,
                                              !.message = r.message])
                                     EXCEPT !.tried = IF r.kind = "full" THEN @
                                                      ELSE CountTried(@)]
        /\ UNCHANGED <<now, employees, payments, streak, cookie, sread, born, uuid,
                       sink, faults>>

\* await employee.save() of the guard, then the throw or the return
RaceGuardSave(s) ==
    LET c == flight.calls[s]
        saved == saveEmployee(employees[c.actor], c.employee[1], c.assigned[1])
    IN  /\ c.pc = "save"
        /\ employees' = [employees EXCEPT ![c.actor] = saved]
        /\ IF c.status = 200
           THEN /\ flight' = [Park(s, [c EXCEPT !.pc = "passed"])
                                EXCEPT !.tried = IF saved.reauthFailures = 0
                                                 THEN 0 ELSE @]
                /\ last' = Idle
           ELSE /\ flight' = Park(s, NoCall)
                /\ last' = Answer(c, c.status, c.message)
        /\ UNCHANGED <<now, payments, streak, cookie, sread, born, uuid, sink, faults>>

\* after the guard: the assignments to the payment loaded before the guard,
\* payment.save(), the rotation, the audit record and the 200
RacePassed(s) ==
    LET c == flight.calls[s]
        user == getSession(jarOf([id |-> c.actor, role |-> "employee"], 0), now).user
    IN  /\ c.pc = "passed"
        /\ IF c.op = "reauth"
           THEN /\ last' = Answer(c, 200, "")
                /\ flight' = Park(s, NoCall)
                /\ UNCHANGED <<payments, uuid, sink>>
           ELSE LET loaded == c.payment[1]
                    doc == IF c.op = "verify" THEN markVerified(loaded, c.actor, now)
                           ELSE markSent(loaded, now)
                    trail == RecordAudit(NoTrail(sink), c.op, c.pid, now, TRUE, AllOk)
                IN  /\ payments' = [payments EXCEPT ![c.pid] =
                                       saveDocument(@, loaded, doc)]
                    /\ uuid' = uuid + 2
                    /\ sink' = trail.sink
                    /\ last' = [Answer(c, 200, "") EXCEPT
                                   !.audits = trail.stored,
                                   !.rotated = <<rotateSession(user, uuid, now)>>]
                    /\ flight' = [Park(s, NoCall) EXCEPT
                                     !.verified = IF c.op = "verify" THEN @ + 1 ELSE @,
                                     !.sent = IF c.op = "send" THEN @ + 1 ELSE @]
        /\ UNCHANGED <<now, employees, streak, cookie, sread, born, faults>>

\* logout of an employee: one findByIdAndUpdate
RaceLogout ==
    /\ \E e \in EmployeeIds :
          /\ employees' = clearReauthState(employees, e)
          /\ last' = Response("logout", e, "", FALSE, 200, "", NoGuard, <<>>, <<>>,
                              Undefined, Undefined)
    /\ flight' = [flight EXCEPT !.tried = 0]
    /\ UNCHANGED <<now, payments, streak, cookie, sread, born, uuid, sink, faults>>

RaceTick ==
    /\ \E t \in PaymentInstants : t > now /\ now' = t
    /\ last' = Idle
    /\ UNCHANGED <<employees, payments, streak, cookie, sread, born, uuid, sink,
                   faults, flight>>

\* one pending payment of a customer, no request in flight
RaceInit ==
    /\ now = 0
    /\ \E enrolled \in BOOLEAN :
          employees = [e \in EmployeeIds |-> newEmployee(enrolled)]
    /\ payments = [p \in PaymentIds |->
                      newPayment("user1", THRESHOLD * CentsPerUnit)]
    /\ last = Idle
    /\ streak = [e \in EmployeeIds |-> NoStreak]
    /\ cookie = NoJar
    /\ sread = NoRead
    /\ born = 0
    /\ uuid = 0
    /\ sink = NoSink
    /\ faults = {}
    /\ flight = NoFlight

PaymentRaceNext ==
    \/ RaceTick
    \/ \E s \in Slots : RaceStart(s, {"verify", "send"})
    \/ \E s \in Slots : RaceGuardRecent(s)
    \/ \E s \in Slots : RaceGuardCheck(s)
    \/ \E s \in Slots : RaceGuardSave(s)
    \/ \E s \in Slots : RacePassed(s)

\* two concurrent verify or send requests on one payment, and the clock
PaymentRaceSpec == RaceInit /\ [][PaymentRaceNext]_vars

GuardRaceNext ==
    \/ RaceTick
    \/ RaceLogout
    \/ \E s \in Slots : RaceStart(s, {"reauth"})
    \/ \E s \in Slots : RaceGuardRecent(s)
    \/ \E s \in Slots : RaceGuardCheck(s)
    \/ \E s \in Slots : RaceGuardSave(s)
    \/ \E s \in Slots : RacePassed(s)

\* two concurrent re-auth requests of an employee, logouts and the clock
GuardRaceSpec == Init /\ [][GuardRaceNext]_vars

----------------------------------------------------------------------------
(* Session lifecycle (session.js): the operations on one browser's cookies *)

MaxUuid == 6

\* the instants at which the session operations run: around the renewal
\* threshold, the idle timeout and the absolute timeout of a session made at 0 or 1 s
SessionInstants ==
    {sec * MsPerSec : sec \in
        {0, 1, IDLE_TIMEOUT - RENEWAL_THRESHOLD, IDLE_TIMEOUT - RENEWAL_THRESHOLD + 1,
         IDLE_TIMEOUT, IDLE_TIMEOUT + 1,
         ABSOLUTE_TIMEOUT - 1, ABSOLUTE_TIMEOUT, ABSOLUTE_TIMEOUT + 1,
         ABSOLUTE_TIMEOUT + IDLE_TIMEOUT}}

\* createSessionCookie (login) and the employee-login route: a new session id,
\* a new csrf token, expiries anchored at now
createSessionCookie(p, n, t) ==
    [token |-> <<signToken(sessionPayload(p.id, p.role, uuidv4(n + 1), t), t)>>,
     csrf |-> uuidv4(n + 2)]

\* updateSessionActivity(res, currentSession): re-sign the session's user with
\* a new lastActivity and idleExpiry; the csrf cookie is left as it is
updatedPayload(user, t) ==
    [k \in DOMAIN user \cup {"lastActivity", "idleExpiry"} |->
        IF k = "lastActivity" THEN Sec(t)
        ELSE IF k = "idleExpiry" THEN Sec(t) + IDLE_TIMEOUT
        ELSE user[k]]

updateSessionActivity(jar, currentSession, t) ==
    [jar EXCEPT !.token = <<signToken(updatedPayload(currentSession.user, t), t)>>]

SessionLogin ==
    /\ uuid + 2 <= MaxUuid
    /\ \E p \in Principals :
          /\ cookie' = createSessionCookie(p, uuid, now)
          /\ born' = sessionPayload(p.id, p.role, "", now).absoluteExpiry
    /\ uuid' = uuid + 2
    /\ sread' = NoRead
    /\ UNCHANGED <<now, employees, payments, last, streak, sink, faults, flight>>

\* a request that reads the session
SessionRead ==
    /\ sread' = [at |-> now, result |-> getSession(cookie, now)]
    /\ UNCHANGED <<now, employees, payments, last, streak, cookie, born, uuid, sink,
                   faults, flight>>

\* a request with a valid session that renews it.  (The callers renew when
\* session.needsRenewal; the operation itself takes any valid session.)
SessionRenew ==
    /\ getSession(cookie, now).isValid
    /\ cookie' = updateSessionActivity(cookie, getSession(cookie, now), now)
    /\ sread' = [at |-> now, result |-> getSession(cookie, now)]
    /\ UNCHANGED <<now, employees, payments, last, streak, born, uuid, sink, faults, flight>>

\* the rotation that ends a successful verify or send
SessionRotate ==
    /\ uuid + 2 <= MaxUuid
    /\ getSession(cookie, now).isValid
    /\ cookie' = rotateSession(getSession(cookie, now).user, uuid, now)
    /\ born' = Sec(now) + ABSOLUTE_TIMEOUT
    /\ uuid' = uuid + 2
    /\ sread' = NoRead
    /\ UNCHANGED <<now, employees, payments, last, streak, sink, faults, flight>>

\* logout: the cookies are deleted
SessionClear ==
    /\ getSession(cookie, now).isValid
    /\ cookie' = NoJar
    /\ sread' = NoRead
    /\ UNCHANGED <<now, employees, payments, last, streak, born, uuid, sink, faults, flight>>

SessionTick ==
    /\ \E t \in SessionInstants : t > now /\ now' = t
    /\ sread' = NoRead
    /\ UNCHANGED <<employees, payments, last, streak, cookie, born, uuid, sink,
                   faults, flight>>

SessionNext ==
    \/ SessionTick
    \/ SessionLogin
    \/ SessionRead
    \/ SessionRenew
    \/ SessionRotate
    \/ SessionClear

\* one browser's session through login, reads, renewals, rotations and logout
SessionSpec == Init /\ [][SessionNext]_vars

----------------------------------------------------------------------------
(* The audit sink alone: calls of sinkAudit, one after the other, with any
   outcome of each file operation *)

MaxAudits == 3

SinkInstants == {0, 1, 2}

SinkAudit ==
    /\ sink.handed < MaxAudits
    /\ \E io \in IoOutcomes({"file"}), action \in {"verify", "send"} :
          sink' = SinkAfter(sink, action, "PAY-1", now, io)
    /\ last' = Idle
    /\ UNCHANGED <<now, employees, payments, streak, cookie, sread, born, uuid,
                   faults, flight>>

SinkTick ==
    /\ \E t \in SinkInstants : t > now /\ now' = t
    /\ last' = Idle
    /\ UNCHANGED <<employees, payments, streak, cookie, sread, born, uuid, sink,
                   faults, flight>>

SinkNext ==
    \/ SinkTick
    \/ SinkAudit

SinkSpec == InitWith({"file"}) /\ [][SinkNext]_vars

----------------------------------------------------------------------------
(* Payment lifecycle properties (Spec) *)

StatusIs(pid, st) == pid \in DOMAIN payments /\ payments[pid].status = st

\* C1: a verify request succeeds only on a payment stored as 'pending' and a
\* send request only on one stored as 'verified'; a verify or send request that
\* gets as far as the payment lookup and whose payment does not meet that
\* precondition is answered 404 or 409 and writes nothing.
C1_StateGate ==
    [][/\ (last'.op = "verify" /\ last'.status = 200)
             => StatusIs(last'.pid, "pending")
       /\ (last'.op = "send" /\ last'.status = 200)
             => StatusIs(last'.pid, "verified")
       /\ (last'.op = "verify" /\ last'.reached /\ ~StatusIs(last'.pid, "pending"))
             => (last'.status \in {404, 409} /\ payments' = payments)
       /\ (last'.op = "send" /\ last'.reached /\ ~StatusIs(last'.pid, "verified"))
             => (last'.status \in {404, 409} /\ payments' = payments)]_vars

\* a verify answered 409 on a payment that was verified and sent before
C1_Witness ==
    /\ last.op = "verify"
    /\ last.status = 409
    /\ StatusIs(last.pid, "verified")
    /\ payments[last.pid].sentToSwift

\* C2: a payment becomes 'verified', or its sentToSwift becomes true, only in a
\* verify (send) request for that payment in which the guard returned success
\* for the acting employee; a request in which the guard failed leaves every
\* payment as it was.
C2_GuardBeforeWrite ==
    [][/\ \A pid \in DOMAIN payments' :
             LET was == IF pid \in DOMAIN payments
                        THEN payments[pid]
                        ELSE newPayment("", 0)
                 is == payments'[pid]
             IN  /\ (is.status = "verified" /\ was.status # "verified")
                       => /\ last'.op = "verify"
                          /\ last'.pid = pid
                          /\ last'.guard.ok
                          /\ last'.actor \in DOMAIN employees
                          /\ is.verifiedBy = last'.actor
                 /\ (is.sentToSwift /\ ~was.sentToSwift)
                       => /\ last'.op = "send"
                          /\ last'.pid = pid
                          /\ last'.guard.ok
                          /\ last'.actor \in DOMAIN employees
       /\ (last'.guard.called /\ ~last'.guard.ok) => payments' = payments]_vars

\* a send that went through on credentials verified in the same request
C2_Witness ==
    /\ last.op = "send"
    /\ last.status = 200
    /\ last.guard.kind = "full"
    /\ payments[last.pid].sentToSwift
    /\ payments[last.pid].swiftSentAt = now

\* C3: in every state verifiedBy is set exactly for the payments whose status is
\* 'verified', and a payment sent to SWIFT is 'verified'; no step takes a
\* 'verified' payment to another status.
C3_Lifecycle ==
    /\ [](\A pid \in DOMAIN payments :
             /\ payments[pid].verifiedBy # NullRef <=> payments[pid].status = "verified"
             /\ payments[pid].sentToSwift => payments[pid].status = "verified")
    /\ [][\A pid \in DOMAIN payments :
             payments[pid].status = "verified" => StatusIs(pid, "verified")']_vars

\* a payment that was created, verified, sent and acknowledged
C3_Witness ==
    \E pid \in DOMAIN payments :
        /\ payments[pid].status = "verified"
        /\ payments[pid].verifiedBy \in EmployeeIds
        /\ payments[pid].sentToSwift
        /\ payments[pid].acknowledged

\* C4: a send request for a payment whose sentToSwift is already true is
\* answered 409 'Payment already sent to SWIFT', leaves the payment (sentToSwift
\* and swiftSentAt included) as it was and stores no 'send' audit record.
C4_AlreadySent ==
    [][(/\ last'.op = "send"
        /\ last'.reached
        /\ last'.pid \in DOMAIN payments
        /\ payments[last'.pid].sentToSwift)
          => /\ last'.status = 409
             /\ last'.error = "Payment already sent to SWIFT"
             /\ payments' = payments
             /\ \A i \in DOMAIN last'.audits : last'.audits[i] # "send"]_vars

\* a send repeated later than the send that went through
C4_Witness ==
    /\ last.op = "send"
    /\ last.error = "Payment already sent to SWIFT"
    /\ payments[last.pid].sentToSwift
    /\ payments[last.pid].swiftSentAt < now

\* C5: with no re-auth inside the window and no secret supplied, a verify of a
\* pending payment passes the guard when the amount is below the threshold, and
\* is answered 401 'Re-authentication required', the payment left pending, when
\* the amount is at or above it.
C5_ThresholdDecides ==
    [][(/\ last'.op = "verify"
        /\ last'.guard.called
        /\ last'.pw = Undefined
        /\ last'.code = Undefined
        /\ last'.actor \in DOMAIN employees
        /\ employees[last'.actor].lastReauthAt = NoDate)
          => IF payments[last'.pid].amount < THRESHOLD * CentsPerUnit
             THEN last'.guard.ok /\ last'.status # 401
             ELSE /\ last'.status = 401
                  /\ last'.error = "Re-authentication required"
                  /\ payments' = payments]_vars

----------------------------------------------------------------------------
(* Step-up guard properties (GuardSpec) *)

\* the guard ran for an employee in the step that is being taken
GuardRanForEmployee == last'.guard.called /\ last'.actor \in DOMAIN employees

\* C6 as stated: with the watermark at T (a step-up succeeded at T, no logout
\* since), a guard call without a secret succeeds at T + window - 1 s and is
\* answered 401 'Re-authentication required' at T + window + 1 s.
C6_WindowEdges ==
    [][(/\ GuardRanForEmployee
        /\ employees[last'.actor].lastReauthAt # NoDate
        /\ last'.pw = Undefined)
          => LET T == employees[last'.actor].lastReauthAt
             IN  /\ now = T + (REAUTH_WINDOW_SECONDS - 1) * MsPerSec
                       => last'.guard.ok
                 /\ now = T + (REAUTH_WINDOW_SECONDS + 1) * MsPerSec
                       => /\ last'.status = 401
                          /\ last'.error = "Re-authentication required"]_vars

\* C6: with the watermark at T, a guard call without a secret succeeds at
\* T + window - 1 s; at T + window + 1 s it fails and leaves the record as it
\* was: 401 'Re-authentication required' while fewer than five failures are
\* recorded, 429 'Too many re-authentication failures' otherwise.
C6_WindowEdgesOrLockout ==
    [][(/\ GuardRanForEmployee
        /\ employees[last'.actor].lastReauthAt # NoDate
        /\ last'.pw = Undefined)
          => LET T == employees[last'.actor].lastReauthAt
                 failures == employees[last'.actor].reauthFailures
             IN  /\ now = T + (REAUTH_WINDOW_SECONDS - 1) * MsPerSec
                       => last'.guard.ok
                 /\ now = T + (REAUTH_WINDOW_SECONDS + 1) * MsPerSec
                       => /\ employees' = employees
                          /\ IF failures < MAX_REAUTH_FAILURES
                             THEN /\ last'.status = 401
                                  /\ last'.error = "Re-authentication required"
                             ELSE /\ last'.status = 429
                                  /\ last'.error =
                                        "Too many re-authentication failures"]_vars

\* a call without a secret, one second past the window, answered 429
C6_Witness ==
    /\ last.guard.called
    /\ last.actor \in DOMAIN employees
    /\ last.pw = Undefined
    /\ employees[last.actor].lastReauthAt # NoDate
    /\ now = employees[last.actor].lastReauthAt
                + (REAUTH_WINDOW_SECONDS + 1) * MsPerSec
    /\ last.status = 429

SecretVerifies(emp, pw, code) ==
    /\ pw = CorrectPassword
    /\ emp.totpEnrolled => code = GoodCode

\* the guard gets as far as verifying the password: outside the window, not
\* locked out, a password supplied
ReachesVerification(emp, pw) ==
    /\ emp.lastReauthAt = NoDate
          \/ Sec(now) - Sec(emp.lastReauthAt) > REAUTH_WINDOW_SECONDS
    /\ emp.reauthFailures < MAX_REAUTH_FAILURES
    /\ pw \notin {Undefined, ""}

----------------------------------------------------------------------------
(* Session properties (SessionSpec) *)

\* C10: a session read at or after the absoluteExpiry fixed when the session
\* was created is never valid, whatever renewals came before the read.
C10_AbsoluteCeiling == sread.result.isValid => Sec(sread.at) < born

\* the jar holds a token as login or rotation signed it (never renewed), and
\* sread is a read of that token made now
ReadOfUnrenewedToken ==
    /\ cookie.token # <<>>
    /\ Has(cookie.token[1].claims, "absoluteExpiry")
    /\ sread.result.kind # "none"
    /\ sread.at = now

\* C11: a token that was created and never renewed, read at or after its
\* idleExpiry (creation + 10 minutes), reads as invalid with reason
\* idle_timeout.
C11_IdleTimeout ==
    (ReadOfUnrenewedToken /\ Sec(now) >= cookie.token[1].claims.idleExpiry)
        => /\ sread.result.kind = "invalid"
           /\ sread.result.reason = "idle_timeout"

\* C12: a read that finds the jar's session valid less than the renewal
\* threshold (2 minutes) before its idleExpiry flags it needsRenewal, and a
\* renewal of it signs idleExpiry = now + idle window and the absoluteExpiry of
\* the token it replaces.
C12_Renewal ==
    [][(/\ cookie.token # <<>>
        /\ sread'.result.isValid
        /\ Has(cookie.token[1].claims, "idleExpiry")
        /\ cookie.token[1].claims.idleExpiry - Sec(now) < RENEWAL_THRESHOLD)
          => /\ sread'.result.needsRenewal
             /\ cookie' # cookie
                   => LET old == cookie.token[1].claims
                          new == cookie'.token[1].claims
                      IN  /\ new.idleExpiry = Sec(now) + IDLE_TIMEOUT
                          /\ Has(old, "absoluteExpiry")
                          /\ Has(new, "absoluteExpiry")
                          /\ new.absoluteExpiry = old.absoluteExpiry]_vars

\* C13: the payload of every token that creation, renewal or rotation signs
\* has issuedAt <= lastActivity < idleExpiry <= absoluteExpiry.  (A comparison
\* with a field the payload lacks is false, as it is in JavaScript.)
C13_PayloadOrder ==
    cookie.token # <<>>
        => LET payload == cookie.token[1].claims
           IN  /\ payload.issuedAt <= payload.lastActivity
               /\ payload.lastActivity < payload.idleExpiry
               /\ Has(payload, "absoluteExpiry")
               /\ payload.idleExpiry <= payload.absoluteExpiry

----------------------------------------------------------------------------
(* Rotation, audit trail and confirmation properties (Spec) *)

Count(audits, a) == Cardinality({i \in DOMAIN audits : audits[i] = a})

\* C15: a request that calls the guard stores exactly one record for the call,
\* reauth_success when the guard succeeded and reauth_failure when it failed,
\* and a verify or send answered 200 stores exactly one record tagged verify
\* or send.
C15_AuditCompleteness ==
    [][last'.guard.called
          => /\ Count(last'.audits, IF last'.guard.ok THEN "reauth_success"
                                                    ELSE "reauth_failure") = 1
             /\ (last'.op \in {"verify", "send"} /\ last'.status = 200)
                   => Count(last'.audits, last'.op) = 1]_vars

----------------------------------------------------------------------------
(* Audit sink properties (SinkSpec) *)

\* C16: the sequence numbers of the lines of the audit log are strictly
\* increasing in append order (so none is used twice), whatever file operations
\* failed in the calls that wrote them.
C16_SequenceIncreasing ==
    \A i, j \in DOMAIN sink.log : i < j => sink.log[i].seq < sink.log[j].seq

\* every document handed to sinkAudit so far is in the log or in the buffer
HeldOrLogged ==
    \A id \in 1..sink.handed :
        \/ \E i \in DOMAIN sink.log : sink.log[i].audit.id = id
        \/ \E i \in DOMAIN sink.buffer : sink.buffer[i].audit.id = id

\* C17: while the process lives every document handed to sinkAudit is in the
\* log or in pendingBuffer, and a call whose appends succeed leaves the buffer
\* empty and all documents in the log.
C17_BufferedUntilLogged ==
    /\ []HeldOrLogged
    /\ [][(sink'.handed # sink.handed /\ sink'.io.flush /\ sink'.io.append)
             => /\ sink'.buffer = <<>>
                /\ \A id \in 1..sink'.handed :
                      \E i \in DOMAIN sink'.log : sink'.log[i].audit.id = id]_vars

----------------------------------------------------------------------------
(* Fault properties (AuditFaultSpec) *)

\* C18: whether or not the audit store and the sink's files fail, a verify or
\* send that saved its payment transition answers 200 without an error, has
\* rotated the session, and leaves the payment as the transition wrote it.
C18_AuditFailureHarmless ==
    [][(last'.op \in {"verify", "send"} /\ payments' # payments)
          => /\ last'.status = 200
             /\ last'.error = ""
             /\ last'.rotated # <<>>
             /\ payments' = [payments EXCEPT ![last'.pid] =
                               IF last'.op = "verify"
                               THEN markVerified(@, last'.actor, now)
                               ELSE markSent(@, now)]]_vars

\* a send answered 200 whose own record the store refused, after a verify
\* whose line the sink could not append
C18_Witness ==
    /\ last.op = "send"
    /\ last.status = 200
    /\ payments[last.pid].sentToSwift
    /\ Count(last.audits, "send") = 0
    /\ sink.handed = 1
    /\ sink.buffer # <<>>

\* C19: a guard call that reports success after verifying the secrets has
\* persisted the new watermark and the reset counter, and a guard call that
\* reports a credential failure has persisted the increment of the counter;
\* when the save fails the call reports neither.
C19_SaveFailurePropagates ==
    [][GuardRanForEmployee
          => LET emp == employees[last'.actor]
                 after == employees'[last'.actor]
             IN  /\ (last'.guard.ok /\ last'.guard.pwChecked)
                       => /\ after.lastReauthAt = now
                          /\ after.reauthFailures = 0
                 /\ last'.error \in {"Re-authentication failed",
                                     "TOTP validation failed"}
                       => after.reauthFailures = emp.reauthFailures + 1]_vars

----------------------------------------------------------------------------
(* Confirmation properties (Spec) *)

\* equality of two strings without regard to case
EqualsIgnoringCase(a, b) == ToUpperCase(a) = ToUpperCase(b)

MismatchText == "SWIFT code confirmation does not match"

\* C20 as stated: a verify request with a confirmation string is answered 400
\* 'SWIFT code confirmation does not match' whenever the string differs from
\* the stored code without regard to case, and, when the guard lets it
\* through, verifies the payment whenever the string equals the stored code
\* without regard to case.
C20_Confirmation ==
    [][(last'.op = "verify" /\ IsString(last'.confirm))
          => LET swiftCode == payments[last'.pid].swiftCode
             IN  /\ ~EqualsIgnoringCase(last'.confirm, swiftCode)
                       => /\ last'.status = 400
                          /\ last'.error = MismatchText
                 /\ (EqualsIgnoringCase(last'.confirm, swiftCode) /\ last'.guard.ok)
                       => /\ last'.status = 200
                          /\ payments'[last'.pid].status = "verified"]_vars

\* C20: a verify request with a confirmation string that the guard lets
\* through is answered 400 'SWIFT code confirmation does not match', the
\* payment staying pending, whenever the string without its leading and
\* trailing blanks differs from the stored code without regard to case, and
\* verifies the payment whenever that trimmed string equals the stored code
\* without regard to case; a request the guard refuses gets the guard's
\* answer whatever its confirmation string.
C20_ConfirmationTrimmed ==
    [][(last'.op = "verify" /\ IsString(last'.confirm))
          => LET swiftCode == payments[last'.pid].swiftCode
                 equal == EqualsIgnoringCase(Trim(last'.confirm), swiftCode)
             IN  /\ (last'.guard.ok /\ ~equal)
                       => /\ last'.status = 400
                          /\ last'.error = MismatchText
                          /\ payments' = payments
                 /\ (last'.guard.ok /\ equal)
                       => /\ last'.status = 200
                          /\ payments'[last'.pid].status = "verified"
                 /\ ~last'.guard.ok
                       => /\ last'.status = last'.guard.status
                          /\ last'.status \in {401, 429}
                          /\ payments' = payments]_vars

\* a verification that went through on the stored code typed in lower case
\* between blanks
C20_Witness ==
    /\ last.op = "verify"
    /\ last.status = 200
    /\ last.confirm = " abcdef12 "
    /\ payments[last.pid].status = "verified"
    /\ payments[last.pid].swiftCode = StoredSwift

----------------------------------------------------------------------------
(* Logout and guard frame properties (Spec, GuardSpec) *)

C24_FailureIndistinguishable ==
    [][GuardRanForEmployee
          => /\ last'.guard.kind \in {"badpw", "badtotp"}
                   => \A secret \in Secrets :
                         LET other == requireReauthIfNeeded(last'.actor, 0, secret[1],
                                                            secret[2], now, employees)
                         IN  other.kind \in {"badpw", "badtotp"}
                                => /\ other.status = last'.status
                                   /\ other.message = last'.error
             /\ last'.guard.kind = "locked"
                   => /\ last'.status # 401
                      /\ last'.error \notin {"Re-authentication failed",
                                             "TOTP validation failed"}]_vars

C29_LockoutPersists ==
    [][\A e \in DOMAIN employees :
          (/\ employees[e].reauthFailures >= MAX_REAUTH_FAILURES
           /\ ~(/\ employees[e].lastReauthAt # NoDate
                /\ Sec(now) - Sec(employees[e].lastReauthAt)
                      <= REAUTH_WINDOW_SECONDS))
             => /\ (last'.guard.called /\ last'.actor = e)
                      => /\ last'.status = 429
                         /\ last'.error = "Too many re-authentication failures"
                         /\ ~last'.guard.pwChecked
                         /\ employees' = employees
                /\ employees'[e] # employees[e]
                      => /\ last'.op = "logout"
                         /\ last'.actor = e
                         /\ employees'[e].reauthFailures = 0]_vars

\* the right password and code refused long after the fifth failure
C29_Witness ==
    /\ last.guard.called
    /\ last.status = 429
    /\ last.pw = CorrectPassword
    /\ last.code = GoodCode
    /\ last.actor \in DOMAIN employees
    /\ employees[last.actor].reauthFailures = MAX_REAUTH_FAILURES
    /\ now > REAUTH_WINDOW_SECONDS * MsPerSec

\* C30: a verify answered 400 'SWIFT code confirmation does not match' leaves
\* the payment as it was (pending, no verifier, no verification time), sets no
\* rotated cookies and stores no verify record, while the employee record is
\* as the guard of that request left it: watermark at now and counter 0 when
\* the guard verified the password, unchanged when a window was open.
C30_MismatchFrame ==
    [][(last'.op = "verify" /\ last'.status = 400 /\ last'.error = MismatchText)
          => /\ payments' = payments
             /\ payments'[last'.pid].status = "pending"
             /\ payments'[last'.pid].verifiedBy = NullRef
             /\ payments'[last'.pid].verifiedAt = NoDate
             /\ last'.rotated = <<>>
             /\ Count(last'.audits, "verify") = 0
             /\ sink' = sink
             /\ last'.guard.ok
             /\ IF last'.guard.pwChecked
                THEN /\ employees'[last'.actor].lastReauthAt = now
                     /\ employees'[last'.actor].reauthFailures = 0
                ELSE employees' = employees]_vars

\* a mismatch after a step-up on the password that stamped the watermark
C30_Witness ==
    /\ last.op = "verify"
    /\ last.status = 400
    /\ last.confirm = "ABCDEF13"
    /\ last.guard.pwChecked
    /\ employees[last.actor].lastReauthAt = now
    /\ now > 0
    /\ payments[last.pid].status = "pending"

----------------------------------------------------------------------------
(* Token round trip (SessionSpec) *)

\* C27: decoding the jar's token returns the session fields its payload was
\* signed with: the user object that getSession compares with the clock holds
\* the payload's idleExpiry, absoluteExpiry and lastActivity.
C27_RoundTrip ==
    (cookie.token # <<>> /\ verifyToken(cookie.token[1], now).isValid)
        => LET payload == cookie.token[1].claims
               user == verifyToken(cookie.token[1], now).user
           IN  \A f \in {"idleExpiry", "absoluteExpiry", "lastActivity"} :
                  Has(payload, f) => Has(user, f) /\ user[f] = payload[f]

----------------------------------------------------------------------------
(* Concurrency properties (PaymentRaceSpec, GuardRaceSpec) *)

\* request s takes its step after the guard: the write and the 200 of a verify
\* or send
WritesAfterGuard(s) ==
    /\ flight.calls[s].pc = "passed"
    /\ flight.calls[s].op \in {"verify", "send"}
    /\ flight'.calls[s].pc = "idle"

\* C21: a verify or send whose payment, as stored when the guard has
\* returned, differs in status or sentToSwift from the document the request
\* loaded before the guard, writes nothing to the payment and is not
\* answered 200.
C21_RereadAfterGuard ==
    [][\A s \in Slots :
          LET c == flight.calls[s]
          IN  (/\ WritesAfterGuard(s)
               /\ \/ payments[c.pid].status # c.payment[1].status
                  \/ payments[c.pid].sentToSwift # c.payment[1].sentToSwift)
                 => /\ payments' = payments
                    /\ last'.status # 200]_vars

\* C26: under every interleaving at most one verify and at most one send of a
\* payment are answered 200, and no verify writes a payment whose stored
\* verifiedBy is set.
C26_AtMostOnce ==
    /\ [](flight.verified <= 1 /\ flight.sent <= 1)
    /\ [][\A s \in Slots :
             (WritesAfterGuard(s) /\ flight.calls[s].op = "verify")
                => payments[flight.calls[s].pid].verifiedBy = NullRef]_vars

\* C22: the save of a guard call that failed on a secret sets the stored
\* counter to the value that call read plus one, whatever the store holds by
\* then: when another failing call has saved since the read, the counter is
\* not raised (or is lowered), and the secrets verified since the counter was
\* last reset can outnumber the lockout count.
C22_LostUpdate ==
    [][\A s \in Slots :
          LET c == flight.calls[s]
          IN  (c.pc = "save" /\ c.status = 401 /\ flight'.calls[s].pc = "idle")
                 => /\ employees'[c.actor].reauthFailures
                          = c.employee[1].reauthFailures + 1
                    /\ employees[c.actor].reauthFailures
                          > c.employee[1].reauthFailures
                          => employees'[c.actor].reauthFailures
                                <= employees[c.actor].reauthFailures]_vars

\* six wrong secrets verified since the last reset, the stored counter still
\* below the lockout count
C22_Witness ==
    /\ flight.tried > MAX_REAUTH_FAILURES
    /\ \A e \in DOMAIN employees :
          employees[e].reauthFailures < MAX_REAUTH_FAILURES

\* C28: whatever the interleaving of guard calls and logouts, every stored
\* failure counter is at least 0 and at most the lockout count.
C28_CounterBounded ==
    \A e \in DOMAIN employees :
        /\ employees[e].reauthFailures >= 0
        /\ employees[e].reauthFailures <= MAX_REAUTH_FAILURES

\* the counter at the lockout count while a call that failed on a secret is
\* about to save its own count
C28_Witness ==
    /\ \A e \in DOMAIN employees :
          employees[e].reauthFailures = MAX_REAUTH_FAILURES
    /\ \E s \in Slots :
          /\ flight.calls[s].pc = "save"
          /\ flight.calls[s].status = 401

====
